---- MODULE Spec2Model ----
(***************************************************************************)
(* Blackjack optimal-strategy solver (src/main.py).                        *)
(*                                                                         *)
(* The program builds, with an infinite shoe, the dealer's outcome         *)
(* distribution per up-card (class Dealer) and the player's expected-value *)
(* tables per (score, HARD/SOFT, up-card) and per (pair, up-card) (class   *)
(* Player), then prints three strategy tables.                             *)
(*                                                                         *)
(* Numbers.  The program computes with Python floats.  The model computes  *)
(* the same expressions in exact arithmetic: a number is an integer        *)
(* multiple of 1/Scale, Scale = LimbBase^(NumLimbs - 1), kept as a sign    *)
(* and NumLimbs limbs in base LimbBase = 36 * 13^6, the least significant  *)
(* first.  Every division the program makes is by 9, 12 or 13, so with     *)
(* enough limbs every quotient is again a multiple of 1/Scale; the field   *)
(* ok records that no division ever left a remainder and no sum            *)
(* overflowed.  Floating-point rounding is therefore outside the model.    *)
(***************************************************************************)
EXTENDS Integers, Sequences, FiniteSets, TLC

(***************************************************************************)
(* Exact arithmetic                                                        *)
(***************************************************************************)
\* A number has NumLimbs - 1 limbs after the point and one before it.
NumLimbs == 8
\* The base is a multiple of every number the program divides by: 13 (the
\* ranks), 9 and 12 (the next cards of a single Ace or 10).
LimbBase == 36 * 13^6

Limbs == 1..NumLimbs
ZeroMag == [i \in Limbs |-> 0]

\* Adding limb by limb carries 1 into limb i.
CarryInto(a, b, i) ==
    \E j \in 1..(i - 1) :
        /\ a[j] + b[j] >= LimbBase
        /\ \A k \in (j + 1)..(i - 1) : a[k] + b[k] >= LimbBase - 1

\* a + b, without the carry out of the last limb
MagAdd(a, b) ==
    [i \in Limbs |-> (a[i] + b[i] + (IF CarryInto(a, b, i) THEN 1 ELSE 0)) % LimbBase]

\* Subtracting limb by limb borrows 1 from limb i.
BorrowFrom(a, b, i) ==
    \E j \in 1..(i - 1) :
        /\ a[j] < b[j]
        /\ \A k \in (j + 1)..(i - 1) : a[k] <= b[k]

\* a - b, for a >= b
MagSub(a, b) ==
    [i \in Limbs |->
        (a[i] - b[i] - (IF BorrowFrom(a, b, i) THEN 1 ELSE 0) + LimbBase) % LimbBase]

\* a < b
MagLess(a, b) == \E i \in Limbs : a[i] < b[i] /\ \A k \in (i + 1)..NumLimbs : a[k] = b[k]

\* a / n for a divisor n of LimbBase: the remainder a limb leaves is its own,
\* and goes into the limb below.
MagDiv(a, n) ==
    [i \in Limbs |->
        (IF i < NumLimbs THEN (a[i + 1] % n) * (LimbBase \div n) ELSE 0) + (a[i] \div n)]

\* A number: sign, magnitude, and whether it is exact.  Zero is never negative.
MkNum(neg, mag, ok) == [neg |-> mag # ZeroMag /\ neg, mag |-> mag, ok |-> ok]

Zero == MkNum(FALSE, ZeroMag, TRUE)

Neg(a) == MkNum(~a.neg, a.mag, a.ok)

Add(a, b) ==
    IF a.neg = b.neg
    THEN MkNum(a.neg, MagAdd(a.mag, b.mag),
               a.ok /\ b.ok /\ ~CarryInto(a.mag, b.mag, NumLimbs + 1))
    ELSE IF MagLess(a.mag, b.mag)
         THEN MkNum(b.neg, MagSub(b.mag, a.mag), a.ok /\ b.ok)
         ELSE MkNum(a.neg, MagSub(a.mag, b.mag), a.ok /\ b.ok)

Sub(a, b) == Add(a, Neg(b))

\* a / n for a small positive integer n; an inexact number stays as it is
Div(a, n) ==
    IF a.ok
    THEN MkNum(a.neg, MagDiv(a.mag, n), LimbBase % n = 0 /\ a.mag[1] % n = 0)
    ELSE a

\* 2.0 * a
Twice(a) == Add(a, a)

Less(a, b) ==
    IF a.neg # b.neg THEN a.neg
    ELSE IF a.neg THEN MagLess(b.mag, a.mag)
    ELSE MagLess(a.mag, b.mag)

Leq(a, b) == ~Less(b, a)

Max2(a, b) == IF Less(a, b) THEN b ELSE a

Max3(a, b, c) == Max2(Max2(a, b), c)

\* TLC evaluates the argument of an operator when it is first used.  A loop
\* tests Evaluated(acc) before its next iteration, so that the value one
\* iteration leaves is computed before the next one starts; the test is TRUE.
Evaluated(v) == v = v

\* 1.0
One == MkNum(FALSE, [i \in Limbs |-> IF i = NumLimbs THEN 1 ELSE 0], TRUE)

(***************************************************************************)
(* Bounds of the model                                                     *)
(***************************************************************************)
\* The recursion of evaluateDealerHand is followed to hands of this many cards.
MaxHandLen == 3
\* Dealer and Player are constructed at most this many times.
MaxRuns == 2
\* getExpectedPayoff is tried on the player scores up to this one.
MaxPlayerScore == 32

(***************************************************************************)
(* Rule flags (lines 8-12) and the program's state                         *)
(***************************************************************************)
VARIABLES
    dealer_cant_start_with_21,      \* line 8
    dealer_hit_on_soft_17,          \* line 11
    allow_double_after_split,       \* line 12
    pc,                             \* where the program is
    rank,                           \* Dealer.__init__: the loop variable of line 84
    hand,                           \* the argument of the evaluateDealerHand call at hand
    outcomes,                       \* what that call returns
    dealerOutcomeMap,               \* Dealer.dealerOutcomeMap of the global dealer
    expectedValueByScoreIfHit,      \* Player's class-level dictionaries (lines 124-135)
    expectedValueByScoreIfStand,
    expectedValueByScoreIfDouble,
    expectedValueForPair,
    pairMapToBaseHand,
    upCardOrder,                    \* the order in which line 403 takes the up-cards
    col,                            \* Player.__init__: position in upCardOrder
    task,                           \* Player.__init__: position in the column's loops
    printed,                        \* how many of the print calls of lines 427-429 ran
    run,                            \* which construction of Dealer and Player this is
    lookups,                        \* history: the getExpectedValue calls of the last step
    stale,                          \* history: those that read an entry this build had not stored
    writes,                         \* history: stores per table entry in this construction
    pairWrites,                     \* history: stores per split entry in this construction
    firstTables                     \* history: the tables as the first construction left them

(***************************************************************************)
(* class Dealer                                                            *)
(***************************************************************************)
Ranks == 1..13
AllRanks == <<1, 2, 3, 4, 5, 6, 7, 8, 9, 10, 11, 12, 13>>
Outcomes == 17..22
NoOutcomes == [key \in {} |-> Zero]

\* min(cardRank, 10)
cardValue(cardRank) == IF cardRank < 10 THEN cardRank ELSE 10

\* One iteration of the scoring loop (lines 35-39) on the loop's state (sum, soft).
ScoreCard(st, cardRank) ==
    IF cardRank = 1 /\ ~st.soft
    THEN [sum |-> st.sum + 11, soft |-> TRUE]
    ELSE [sum |-> st.sum + cardValue(cardRank), soft |-> st.soft]

RECURSIVE ScoreFrom(_, _, _)
ScoreFrom(cards, i, st) ==
    IF i > Len(cards) THEN st ELSE ScoreFrom(cards, i + 1, ScoreCard(st, cards[i]))

\* The scoring loop (lines 32-39): sum and soft as the loop leaves them.
ScoreHand(cards) == ScoreFrom(cards, 1, [sum |-> 0, soft |-> FALSE])

\* Lines 42-43: a soft hand over 21 is scored with its ace as 1.  The flag soft
\* is not cleared there.
DealerTotal(st) == IF st.sum > 21 /\ st.soft THEN st.sum - 10 ELSE st.sum

\* Line 46: the dealer busts or stands.
DealerStandsWith(st, hitSoft17) ==
    DealerTotal(st) > 17 \/ (DealerTotal(st) = 17 /\ ~(hitSoft17 /\ st.soft))

DealerStands(st) == DealerStandsWith(st, dealer_hit_on_soft_17)

\* Line 47: { min(sum, 22) : 1.0 }
StandOutcome(st) == (IF DealerTotal(st) < 22 THEN DealerTotal(st) ELSE 22) :> One

\* Lines 53-58.
possibleNextCards(cards) ==
    IF cards = <<1>> /\ dealer_cant_start_with_21 THEN <<1, 2, 3, 4, 5, 6, 7, 8, 9>>
    ELSE IF cards = <<10>> /\ dealer_cant_start_with_21
         THEN <<2, 3, 4, 5, 6, 7, 8, 9, 10, 11, 12, 13>>
         ELSE AllRanks

\* A merge that weights every sub-distribution 1/13, whatever the number of
\* next cards.
MergeByThirteen(acc, newOutcomes, n) ==
    [key \in DOMAIN acc \cup DOMAIN newOutcomes |->
        IF key \notin DOMAIN newOutcomes THEN acc[key]
        ELSE IF key \in DOMAIN acc THEN Add(acc[key], Div(newOutcomes[key], 13))
        ELSE Div(newOutcomes[key], 13)] @@ NoOutcomes

\* Lines 67-71: merge one sub-distribution, each entry divided by n.
MergeOutcomes(acc, newOutcomes, n) ==
    [key \in DOMAIN acc \cup DOMAIN newOutcomes |->
        IF key \notin DOMAIN newOutcomes THEN acc[key]
        ELSE IF key \in DOMAIN acc THEN Add(acc[key], Div(newOutcomes[key], n))
        ELSE Div(newOutcomes[key], n)] @@ NoOutcomes

RECURSIVE DrawFrom(_, _, _, _)
\* Lines 61-71: the loop over the next cards, from the i-th on; child[r] is what
\* the recursive call on the hand plus r returns.
DrawFrom(cards, child, i, acc) ==
    IF i <= Len(cards) /\ Evaluated(acc)
    THEN DrawFrom(cards, child, i + 1, MergeOutcomes(acc, child[cards[i]], Len(cards)))
    ELSE acc

\* The largest sum the scoring loop can leave on which line 46 lets the dealer
\* draw: a total of 17 whose ace was re-scored.
MaxHitSum == 17 + 10

\* What the recursive call of line 63 returns.  The hand it is given has two
\* cards or more, so its next cards are all 13 ranks, and the call depends on the
\* hand only through the state st its scoring loop ends in; rows holds the
\* results for the states with a larger sum.
ChildOutcome(st, rows) == IF st.sum > MaxHitSum THEN StandOutcome(st) ELSE rows[st]

\* Lines 26-78 on a hand whose scoring loop ends in st and whose next cards are
\* cards.
EvaluateScored(st, cards, rows, hitSoft17) ==
    IF DealerStandsWith(st, hitSoft17) \/ ~Evaluated(rows) THEN StandOutcome(st)
    ELSE DrawFrom(cards, [r \in Ranks |-> ChildOutcome(ScoreCard(st, r), rows)], 1, NoOutcomes)

RECURSIVE DealerRowsFrom(_, _, _, _)
\* evaluateDealerHand on the hands of two cards or more, tabulated by the state
\* of the scoring loop: rows holds the results for the states above hi, and the
\* rows of the sums hi down to lo are added to it, the upper half of the range
\* first.  Every card adds at least 1 to sum, so a row needs only the rows
\* above it.
DealerRowsFrom(lo, hi, hitSoft17, rows) ==
    IF ~Evaluated(rows) THEN rows
    ELSE IF lo = hi
         THEN rows @@ [st \in {[sum |-> lo, soft |-> b] : b \in BOOLEAN} |->
                         EvaluateScored(st, AllRanks, rows, hitSoft17)]
         ELSE DealerRowsFrom(lo, (lo + hi) \div 2, hitSoft17,
                  DealerRowsFrom((lo + hi) \div 2 + 1, hi, hitSoft17, rows))

DealerRows ==
    (TRUE :> DealerRowsFrom(2, MaxHitSum, TRUE, <<>>)) @@
    (FALSE :> DealerRowsFrom(2, MaxHitSum, FALSE, <<>>))

\* Dealer.evaluateDealerHand (lines 22-78).
evaluateDealerHand(cards) ==
    EvaluateScored(ScoreHand(cards), possibleNextCards(cards),
                   DealerRows[dealer_hit_on_soft_17], dealer_hit_on_soft_17)

\* Dealer.getDealerOutcome (lines 88-89); self is the dealer's dealerOutcomeMap.
getDealerOutcome(self, dealerUpCard) == self[cardValue(dealerUpCard)]

\* A loop body in which a tie is a loss.
PayoffTiesLose(dist, playerScore, outcome, expectedPayoff) ==
    IF outcome \notin DOMAIN dist THEN expectedPayoff
    ELSE IF outcome = 22 \/ playerScore > outcome
         THEN Add(expectedPayoff, dist[outcome])
         ELSE Sub(expectedPayoff, dist[outcome])

\* Lines 99-112: the body of the loop over the outcomes, for the key outcome
\* (a key the distribution lacks is not iterated).
PayoffStep(dist, playerScore, outcome, expectedPayoff) ==
    IF outcome \notin DOMAIN dist THEN expectedPayoff
    ELSE IF outcome = 22 \/ playerScore > outcome
         THEN Add(expectedPayoff, dist[outcome])
    ELSE IF outcome > playerScore
         THEN Sub(expectedPayoff, dist[outcome])
    ELSE expectedPayoff

RECURSIVE PayoffFrom(_, _, _, _)
\* Lines 98-112: the loop over the outcomes, from key outcome on.
PayoffFrom(dist, playerScore, outcome, expectedPayoff) ==
    IF outcome <= 22 /\ Evaluated(expectedPayoff)
    THEN PayoffFrom(dist, playerScore, outcome + 1,
                    PayoffStep(dist, playerScore, outcome, expectedPayoff))
    ELSE expectedPayoff

\* Dealer.getExpectedPayoff (lines 93-114).
getExpectedPayoff(self, dealerUpCard, playerScore) ==
    IF playerScore > 21 THEN Neg(One)
    ELSE PayoffFrom(getDealerOutcome(self, dealerUpCard), playerScore, 17, Zero)

(***************************************************************************)
(* class Player                                                            *)
(***************************************************************************)
UpCards == 1..10
Scores == 1..21
EmptyDict == <<>>
softString(soft) == IF soft THEN "SOFT" ELSE "HARD"

\* The four expected-value dictionaries, as one value.
Tables ==
    [hit    |-> expectedValueByScoreIfHit,
     stand  |-> expectedValueByScoreIfStand,
     double |-> expectedValueByScoreIfDouble,
     pair   |-> expectedValueForPair]

\* dict[playerScore][softString][dealerUpCard] exists
HasEntry(dict, playerScore, soft, dealerUpCard) ==
    /\ playerScore \in DOMAIN dict
    /\ dealerUpCard \in DOMAIN dict[playerScore][softString(soft)]

\* Lines 149-156: the hand evaluatePlayerHand works on.
EnteredHand(playerScore, soft, firstCard) ==
    LET h1 == IF playerScore = 1 /\ firstCard
              THEN [score |-> 11, soft |-> TRUE]
              ELSE [score |-> playerScore, soft |-> soft]
    IN  IF h1.score > 21 /\ h1.soft THEN [score |-> h1.score - 10, soft |-> FALSE] ELSE h1

\* A hit that re-scores every total above 21, the hard ones too.
HitHandRescoresHard(h, newRank) ==
    LET newScore == h.score + (IF h.soft \/ newRank > 1 THEN cardValue(newRank) ELSE 11)
    IN  IF newScore > 21
        THEN [score |-> newScore - 10, soft |-> FALSE]
        ELSE [score |-> newScore, soft |-> h.soft \/ newRank = 1]

\* Lines 171-175: the hand after the card newRank.
HitHand(h, newRank) ==
    LET newScore == h.score + (IF h.soft \/ newRank > 1 THEN cardValue(newRank) ELSE 11)
        newSoft  == h.soft \/ newRank = 1
    IN  IF newScore > 21 /\ newSoft
        THEN [score |-> newScore - 10, soft |-> FALSE]
        ELSE [score |-> newScore, soft |-> newSoft]

\* A lookup for which a score above 21 wins the stake.
getExpectedValueBustWins(T, playerScore, soft, dealerUpCard, doubleAllowed) ==
    IF playerScore > 21 THEN One
    ELSE LET evHit    == T.hit[playerScore][softString(soft)][dealerUpCard]
             evStand  == T.stand[playerScore][softString(soft)][dealerUpCard]
             evDouble == T.double[playerScore][softString(soft)][dealerUpCard]
         IN  IF doubleAllowed THEN Max3(evHit, evStand, evDouble) ELSE Max2(evHit, evStand)

\* A lookup that takes DOUBLE into account whatever doubleAllowed says.
getExpectedValueWithDouble(T, playerScore, soft, dealerUpCard, doubleAllowed) ==
    IF playerScore > 21 THEN Neg(One)
    ELSE Max3(T.hit[playerScore][softString(soft)][dealerUpCard],
              T.stand[playerScore][softString(soft)][dealerUpCard],
              T.double[playerScore][softString(soft)][dealerUpCard])

\* A lookup that reads the column of up-card 1 whatever dealerUpCard is.
getExpectedValueOfAce(T, playerScore, soft, dealerUpCard, doubleAllowed) ==
    IF playerScore > 21 THEN Neg(One)
    ELSE LET evHit    == T.hit[playerScore][softString(soft)][1]
             evStand  == T.stand[playerScore][softString(soft)][1]
             evDouble == T.double[playerScore][softString(soft)][1]
         IN  IF doubleAllowed THEN Max3(evHit, evStand, evDouble) ELSE Max2(evHit, evStand)

\* Player.getExpectedValue (lines 212-222) on the tables T.
getExpectedValue(T, playerScore, soft, dealerUpCard, doubleAllowed) ==
    IF playerScore > 21 THEN Neg(One)
    ELSE LET evHit    == T.hit[playerScore][softString(soft)][dealerUpCard]
             evStand  == T.stand[playerScore][softString(soft)][dealerUpCard]
             evDouble == T.double[playerScore][softString(soft)][dealerUpCard]
         IN  IF doubleAllowed THEN Max3(evHit, evStand, evDouble) ELSE Max2(evHit, evStand)

\* The getExpectedValue calls evaluatePlayerHand makes (line 181), as
\* <<playerScore, soft, dealerUpCard>>.
LookupsOf(playerScore, soft, dealerUpCard, firstCard) ==
    LET h == EnteredHand(playerScore, soft, firstCard)
    IN  IF h.score > 21 THEN {}
        ELSE {<<HitHand(h, r).score, HitHand(h, r).soft, dealerUpCard>> : r \in Ranks}

\* A call getExpectedValue(l) raises KeyError on the tables T.
Misses(T, l) ==
    /\ l[1] <= 21
    /\ ~(/\ HasEntry(T.hit, l[1], l[2], l[3])
         /\ HasEntry(T.stand, l[1], l[2], l[3])
         /\ HasEntry(T.double, l[1], l[2], l[3]))

\* Lines 170-186: the body of the loop over the next cards, for newRank.
HitStep(T, h, dealerUpCard, dealerPointer, firstCard, newRank, acc) ==
    LET n == HitHand(h, newRank)
    IN  [HIT    |-> Add(acc.HIT,
                        Div(getExpectedValue(T, n.score, n.soft, dealerUpCard,
                                             firstCard /\ allow_double_after_split),
                            Len(AllRanks))),
         STAND  |-> acc.STAND,
         DOUBLE |-> Add(acc.DOUBLE,
                        Div(Twice(getExpectedPayoff(dealerPointer, dealerUpCard, n.score)),
                            Len(AllRanks)))]

RECURSIVE HitLoop(_, _, _, _, _, _, _)
\* Lines 169-186: the loop over the next cards, from the i-th on.
HitLoop(T, h, dealerUpCard, dealerPointer, firstCard, i, acc) ==
    IF i <= Len(AllRanks) /\ Evaluated(acc)
    THEN HitLoop(T, h, dealerUpCard, dealerPointer, firstCard, i + 1,
                 HitStep(T, h, dealerUpCard, dealerPointer, firstCard, AllRanks[i], acc))
    ELSE acc

\* Player.evaluatePlayerHand (lines 143-193) on the tables T; dealerPointer is
\* the dealerOutcomeMap of the dealer passed.
evaluatePlayerHand(T, playerScore, soft, dealerUpCard, dealerPointer, firstCard) ==
    LET h == EnteredHand(playerScore, soft, firstCard)
    IN  IF h.score > 21
        THEN [HIT |-> Neg(One), STAND |-> Neg(One), DOUBLE |-> Neg(One)]
        ELSE HitLoop(T, h, dealerUpCard, dealerPointer, firstCard, 1,
                     [HIT |-> Zero,
                      STAND |-> getExpectedPayoff(dealerPointer, dealerUpCard, h.score),
                      DOUBLE |-> Zero])

\* A split valued as a hand that is not the first card of a split.
SplitNotFirstCard(T, pairCard, dealerUpCard, dealerPointer) ==
    Twice(evaluatePlayerHand(T, pairCard, pairCard = 1, dealerUpCard, dealerPointer, FALSE).HIT)

\* Player.expectedValueOfSplittingPair (lines 197-207) on the tables T.
expectedValueOfSplittingPair(T, pairCard, dealerUpCard, dealerPointer) ==
    Twice(evaluatePlayerHand(T, pairCard, pairCard = 1, dealerUpCard, dealerPointer, TRUE).HIT)

\* A store that adds value to the entry already there.
StoreSum(dict, playerScore, soft, dealerUpCard, value) ==
    LET row    == IF playerScore \in DOMAIN dict THEN dict[playerScore]
                  ELSE [HARD |-> EmptyDict, SOFT |-> EmptyDict]
        old    == row[softString(soft)]
        sum    == IF dealerUpCard \in DOMAIN old THEN Add(old[dealerUpCard], value) ELSE value
        newRow == [row EXCEPT ![softString(soft)] = (dealerUpCard :> sum) @@ @]
    IN  (playerScore :> newRow) @@ dict

\* Lines 230-238: dict with dict[playerScore][softString][dealerUpCard] = value,
\* the row of playerScore created when it is missing.
Store(dict, playerScore, soft, dealerUpCard, value) ==
    LET row    == IF playerScore \in DOMAIN dict THEN dict[playerScore]
                  ELSE [HARD |-> EmptyDict, SOFT |-> EmptyDict]
        newRow == [row EXCEPT ![softString(soft)] = (dealerUpCard :> value) @@ @]
    IN  (playerScore :> newRow) @@ dict

\* Player.setExpectedValue (lines 225-238) on the tables T; the dealer of line
\* 226 is the module's global, whose dealerOutcomeMap is the variable.
setExpectedValue(T, playerScore, soft, dealerUpCard) ==
    LET choices == evaluatePlayerHand(T, playerScore, soft, dealerUpCard,
                                      dealerOutcomeMap, FALSE)
    IN  [T EXCEPT !.hit    = Store(@, playerScore, soft, dealerUpCard, choices.HIT),
                  !.stand  = Store(@, playerScore, soft, dealerUpCard, choices.STAND),
                  !.double = Store(@, playerScore, soft, dealerUpCard, choices.DOUBLE)]

\* Lines 423-424 on the tables T.
setPair(T, pairCard, dealerUpCard, dealer) ==
    [T EXCEPT !.pair[pairCard] =
        (dealerUpCard :> expectedValueOfSplittingPair(T, pairCard, dealerUpCard, dealer)) @@ @]

\* range(hi, lo, -1) as tasks of one softness
ScoreTasks(hi, lo, soft) ==
    [i \in 1..(hi - lo) |-> [kind |-> "score", n |-> hi + 1 - i, soft |-> soft]]

\* A column in which the hard hands 21..11 are built again at the end.
RepeatedPlan ==
    ScoreTasks(21, 10, FALSE) \o ScoreTasks(21, 10, TRUE) \o
    ScoreTasks(10, 0, FALSE) \o ScoreTasks(10, 0, TRUE) \o
    [i \in 1..10 |-> [kind |-> "pair", n |-> i, soft |-> i = 1]] \o
    ScoreTasks(21, 10, FALSE)

\* A column built with the soft hands 21..11 before the hard ones.
SoftFirstPlan ==
    ScoreTasks(21, 10, TRUE) \o ScoreTasks(21, 10, FALSE) \o
    ScoreTasks(10, 0, FALSE) \o ScoreTasks(10, 0, TRUE) \o
    [i \in 1..10 |-> [kind |-> "pair", n |-> i, soft |-> i = 1]]

\* The body of the loop of line 403: lines 406-424, in order.
ColumnPlan ==
    ScoreTasks(21, 10, FALSE) \o ScoreTasks(21, 10, TRUE) \o
    ScoreTasks(10, 0, FALSE) \o ScoreTasks(10, 0, TRUE) \o
    [i \in 1..10 |-> [kind |-> "pair", n |-> i, soft |-> i = 1]]

\* One task of the column of dealerUpCard, on the tables T; dealer is the
\* parameter of Player.__init__.
RunTask(T, t, dealerUpCard, dealer) ==
    IF t.kind = "score" THEN setExpectedValue(T, t.n, t.soft, dealerUpCard)
    ELSE setPair(T, t.n, dealerUpCard, dealer)

\* The getExpectedValue calls of one task.
TaskLookups(t, dealerUpCard) == LookupsOf(t.n, t.soft, dealerUpCard, t.kind = "pair")

\* Lines 396-400.
PairBaseHands ==
    [pairCard \in 1..10 |->
        IF pairCard = 1 THEN [SCORE |-> 12, SOFT |-> TRUE]
        ELSE [SCORE |-> pairCard * 2, SOFT |-> FALSE]]

TableKeys == Scores \X BOOLEAN \X UpCards
PairKeys == (1..10) \X UpCards

(***************************************************************************)
(* The program: dealer = Dealer(); player = Player(dealer)  (lines 478-479) *)
(***************************************************************************)
vars == <<dealer_cant_start_with_21, dealer_hit_on_soft_17, allow_double_after_split,
          pc, rank, hand, outcomes, dealerOutcomeMap,
          expectedValueByScoreIfHit, expectedValueByScoreIfStand,
          expectedValueByScoreIfDouble, expectedValueForPair, pairMapToBaseHand,
          upCardOrder, col, task, printed, run,
          lookups, stale, writes, pairWrites, firstTables>>

flagVars == <<dealer_cant_start_with_21, dealer_hit_on_soft_17, allow_double_after_split>>
dealerVars == <<rank, hand, outcomes, dealerOutcomeMap>>
tableVars == <<expectedValueByScoreIfHit, expectedValueByScoreIfStand,
               expectedValueByScoreIfDouble, expectedValueForPair>>
historyVars == <<lookups, stale, writes, pairWrites, firstTables>>

NoWrites == [k \in TableKeys |-> 0]
NoPairWrites == [k \in PairKeys |-> 0]

\* Nothing constructed yet.
Fresh ==
    /\ rank = 1
    /\ dealerOutcomeMap = EmptyDict
    /\ expectedValueByScoreIfHit = EmptyDict
    /\ expectedValueByScoreIfStand = EmptyDict
    /\ expectedValueByScoreIfDouble = EmptyDict
    /\ expectedValueForPair = EmptyDict
    /\ pairMapToBaseHand = EmptyDict
    /\ col = 1
    /\ task = 1
    /\ printed = 0
    /\ run = 1
    /\ lookups = {}
    /\ stale = {}
    /\ writes = NoWrites
    /\ pairWrites = NoPairWrites
    /\ firstTables = EmptyDict

\* The state before line 478, the flags and the up-card order left open.
Start ==
    /\ Fresh
    /\ pc = "Dealer"
    /\ hand = <<>>
    /\ outcomes = NoOutcomes

ShippedFlags ==
    /\ dealer_cant_start_with_21 = TRUE
    /\ dealer_hit_on_soft_17 = TRUE
    /\ allow_double_after_split = TRUE

\* range(1, 11)
SourceOrder == <<1, 2, 3, 4, 5, 6, 7, 8, 9, 10>>

Init == Start /\ ShippedFlags /\ upCardOrder = SourceOrder

\* Lines 84-85: one iteration of the loop of Dealer.__init__.
DealerInitStep ==
    /\ pc = "Dealer"
    /\ rank <= 10
    /\ hand' = <<rank>>
    /\ outcomes' = evaluateDealerHand(<<rank>>)
    /\ dealerOutcomeMap' = (rank :> outcomes') @@ dealerOutcomeMap
    /\ rank' = rank + 1
    /\ UNCHANGED <<flagVars, pc, tableVars, pairMapToBaseHand, upCardOrder, col, task,
                   printed, run, historyVars>>

\* Line 478 done: the global dealer is set.
DealerInitDone ==
    /\ pc = "Dealer"
    /\ rank > 10
    /\ pc' = "Player"
    /\ hand' = <<>>
    /\ outcomes' = NoOutcomes
    /\ UNCHANGED <<flagVars, rank, dealerOutcomeMap, tableVars, pairMapToBaseHand,
                   upCardOrder, col, task, printed, run, historyVars>>

\* Lines 393-400: the start of Player.__init__.
PlayerSetup ==
    /\ pc = "Player"
    /\ pairMapToBaseHand' = PairBaseHands
    /\ expectedValueForPair' = [pairCard \in 1..10 |-> EmptyDict]
    /\ pc' = "Build"
    /\ col' = 1
    /\ task' = 1
    /\ writes' = NoWrites
    /\ pairWrites' = NoPairWrites
    /\ lookups' = {}
    /\ stale' = {}
    /\ UNCHANGED <<flagVars, dealerVars, expectedValueByScoreIfHit,
                   expectedValueByScoreIfStand, expectedValueByScoreIfDouble,
                   upCardOrder, printed, run, firstTables>>

\* The entry a lookup asks for is one this construction has not stored yet.
NotYetStored(l) == l \notin TableKeys \/ writes[l] = 0

\* Lines 406-424: one call of setExpectedValue, or one pair, of the column at
\* hand; a lookup that misses ends the program with KeyError.
BuildStep ==
    /\ pc = "Build"
    /\ LET t  == ColumnPlan[task]
           u  == upCardOrder[col]
           ls == TaskLookups(t, u)
       IN  /\ lookups' = ls
           /\ stale' = {l \in ls : l[1] <= 21 /\ NotYetStored(l)}
           /\ IF \E l \in ls : Misses(Tables, l)
              THEN /\ pc' = "KeyError"
                   /\ UNCHANGED <<tableVars, col, task, writes, pairWrites, firstTables>>
              ELSE \E T \in {RunTask(Tables, t, u, dealerOutcomeMap)} :
                   /\ expectedValueByScoreIfHit' = T.hit
                   /\ expectedValueByScoreIfStand' = T.stand
                   /\ expectedValueByScoreIfDouble' = T.double
                   /\ expectedValueForPair' = T.pair
                   /\ IF t.kind = "score"
                      THEN /\ writes' = [writes EXCEPT ![<<t.n, t.soft, u>>] = @ + 1]
                           /\ pairWrites' = pairWrites
                      ELSE /\ pairWrites' = [pairWrites EXCEPT ![<<t.n, u>>] = @ + 1]
                           /\ writes' = writes
                   /\ IF task < Len(ColumnPlan)
                      THEN /\ task' = task + 1
                           /\ UNCHANGED <<pc, col, firstTables>>
                      ELSE IF col < Len(upCardOrder)
                      THEN /\ task' = 1
                           /\ col' = col + 1
                           /\ UNCHANGED <<pc, firstTables>>
                      ELSE /\ pc' = "Print"
                           /\ firstTables' = IF run = 1 THEN T ELSE firstTables
                           /\ UNCHANGED <<col, task>>
    /\ UNCHANGED <<flagVars, dealerVars, pairMapToBaseHand, upCardOrder, printed, run>>

\* Lines 427-429: printStrategy(False), printStrategy(True), printPairStrategy:
\* each only reads the tables.
PrintStep ==
    /\ pc = "Print"
    /\ printed' = printed + 1
    /\ pc' = IF printed + 1 = 3 THEN "Done" ELSE "Print"
    /\ UNCHANGED <<flagVars, dealerVars, tableVars, pairMapToBaseHand, upCardOrder,
                   col, task, run, historyVars>>

\* Line 63: the call at hand calls evaluateDealerHand(hand + [newRank]).
RecursiveCall ==
    /\ pc \in {"Dealer", "Evaluate"}
    /\ hand # <<>>
    /\ Len(hand) < MaxHandLen
    /\ ~DealerStands(ScoreHand(hand))
    /\ \E i \in 1..Len(possibleNextCards(hand)) :
          /\ hand' = Append(hand, possibleNextCards(hand)[i])
          /\ outcomes' = evaluateDealerHand(hand')
    /\ UNCHANGED <<flagVars, pc, rank, dealerOutcomeMap, tableVars, pairMapToBaseHand,
                   upCardOrder, col, task, printed, run, historyVars>>

\* Lines 478-479 run once more: the new Player stores into the same class-level
\* dictionaries.
Rerun ==
    /\ pc = "Done"
    /\ run < MaxRuns
    /\ run' = run + 1
    /\ pc' = "Dealer"
    /\ rank' = 1
    /\ dealerOutcomeMap' = EmptyDict
    /\ printed' = 0
    /\ UNCHANGED <<flagVars, hand, outcomes, tableVars, pairMapToBaseHand, upCardOrder,
                   col, task, historyVars>>

Next == DealerInitStep \/ DealerInitDone \/ PlayerSetup \/ BuildStep \/ PrintStep

\* The program as shipped.
Spec == Init /\ [][Next]_vars

\* Dealer(): the construction with the calls of its recursion, to MaxHandLen cards.
DealerNext == DealerInitStep \/ RecursiveCall \/ DealerInitDone

DealerSpec == Init /\ [][DealerNext]_vars

\* evaluateDealerHand as a function: called on any single card, with the calls
\* of its recursion, to MaxHandLen cards.
EvaluateInit ==
    /\ Fresh
    /\ ShippedFlags
    /\ upCardOrder = SourceOrder
    /\ pc = "Evaluate"
    /\ hand \in {<<r>> : r \in Ranks}
    /\ outcomes = evaluateDealerHand(hand)

EvaluateSpec == EvaluateInit /\ [][RecursiveCall]_vars

\* The program under any setting of the three rule flags.
RulesInit ==
    /\ Start
    /\ dealer_cant_start_with_21 \in BOOLEAN
    /\ dealer_hit_on_soft_17 \in BOOLEAN
    /\ allow_double_after_split \in BOOLEAN
    /\ upCardOrder = SourceOrder

RulesSpec == RulesInit /\ [][Next]_vars

\* The program constructing Dealer and Player MaxRuns times.
RerunNext == Next \/ Rerun

RerunSpec == Init /\ [][RerunNext]_vars

\* Orders in which the loop of line 403 may take the up-cards.
UpCardOrders ==
    {SourceOrder, <<10, 9, 8, 7, 6, 5, 4, 3, 2, 1>>, <<6, 1, 7, 2, 8, 3, 9, 4, 10, 5>>}

\* The program is started anew, nothing constructed, with the loop of line 403
\* taking the up-cards in another order.
Reorder ==
    /\ pc = "Done"
    /\ run = 1
    /\ run' = run + 1
    /\ upCardOrder' \in UpCardOrders \ {upCardOrder}
    /\ pc' = "Dealer"
    /\ rank' = 1
    /\ dealerOutcomeMap' = EmptyDict
    /\ expectedValueByScoreIfHit' = EmptyDict
    /\ expectedValueByScoreIfStand' = EmptyDict
    /\ expectedValueByScoreIfDouble' = EmptyDict
    /\ expectedValueForPair' = EmptyDict
    /\ pairMapToBaseHand' = EmptyDict
    /\ printed' = 0
    /\ UNCHANGED <<flagVars, hand, outcomes, col, task, historyVars>>

OrderNext == Next \/ Reorder

\* The program as shipped, then with the up-cards in another order.
OrderSpec == Init /\ [][OrderNext]_vars

(***************************************************************************)
(* Properties                                                              *)
(***************************************************************************)
RECURSIVE SumFrom(_, _, _)
\* acc plus the sum of dist over keys
SumFrom(dist, keys, acc) ==
    IF keys # {} /\ Evaluated(acc)
    THEN SumFrom(dist, keys \ {CHOOSE k \in keys : TRUE},
                 Add(acc, dist[CHOOSE k \in keys : TRUE]))
    ELSE acc

\* The sum of dist over keys.
SumOver(dist, keys) == SumFrom(dist, keys, Zero)

\* dist has keys among 17..22 only and probabilities that sum to exactly 1.
IsDistribution(dist) ==
    /\ DOMAIN dist \subseteq Outcomes
    /\ SumOver(dist, DOMAIN dist) = One

\* C1: for every up-card 1..10 the distribution Dealer.__init__ stores, which
\* getDealerOutcome returns, has keys in 17..22 only and sums to exactly 1; so
\* does what evaluateDealerHand returns on every hand reached in its recursion.
C1_DealerDistributions ==
    /\ \A U \in DOMAIN dealerOutcomeMap : IsDistribution(dealerOutcomeMap[U])
    /\ rank > 10 =>
          /\ DOMAIN dealerOutcomeMap = UpCards
          /\ \A U \in UpCards : IsDistribution(getDealerOutcome(dealerOutcomeMap, U))
    /\ hand # <<>> => IsDistribution(outcomes)

\* All ten up-cards are stored, and the call at hand is one of the recursion,
\* on a hand the dealer draws to.
C1_Witness ==
    /\ rank > 10
    /\ DOMAIN dealerOutcomeMap = UpCards
    /\ Len(hand) = MaxHandLen
    /\ ~DealerStands(ScoreHand(hand))
    /\ Cardinality(DOMAIN outcomes) > 1

\* The total of the hand counts an ace as 11.
AceCountsEleven(st) == st.soft /\ st.sum <= 21

\* C2: on every hand whose total is 17, evaluateDealerHand returns {17: 1.0}
\* unless dealer_hit_on_soft_17 is set and the total counts an ace as 11; so the
\* dealer stands on 10, 6, Ace.
C2_StandsOnSeventeen ==
    (/\ hand # <<>>
     /\ DealerTotal(ScoreHand(hand)) = 17
     /\ ~(dealer_hit_on_soft_17 /\ AceCountsEleven(ScoreHand(hand))))
    => outcomes = (17 :> One)

\* The next cards the rule "the dealer cannot start with 21" leaves to a hand.
CardsWithoutTwentyOne(cards) ==
    IF Len(cards) = 1 /\ cards[1] = 1 THEN <<1, 2, 3, 4, 5, 6, 7, 8, 9>>
    ELSE IF Len(cards) = 1 /\ cardValue(cards[1]) = 10
         THEN <<2, 3, 4, 5, 6, 7, 8, 9, 10, 11, 12, 13>>
         ELSE AllRanks

\* The first two cards of the hand total 21.
StartsWithTwentyOne(cards) ==
    Len(cards) >= 2 /\ DealerTotal(ScoreHand(SubSeq(cards, 1, 2))) = 21

\* C3: with dealer_cant_start_with_21 set, evaluateDealerHand on [Ace] draws
\* the ranks 1..9 only, on a single card of any rank 10..13 all ranks but the
\* Ace, on every other hand all 13 ranks, each with equal weight; so no call of
\* the recursion is on a hand whose first two cards total 21.
C3_NoTwoCardTwentyOne ==
    (dealer_cant_start_with_21 /\ hand # <<>>) =>
        /\ possibleNextCards(hand) = CardsWithoutTwentyOne(hand)
        /\ ~StartsWithTwentyOne(hand)

\* C4: getExpectedPayoff(U, s) is -1 for every s > 21; for s <= 21 it is the
\* probability of the dealer classes c with c = 22 or s > c, minus that of the
\* classes with c # 22 and c > s; it lies in [-1, +1].
C4_ExpectedPayoff ==
    (rank > 10 /\ pc \in {"Player", "Build"} /\ task = 1) =>
        \A U \in Ranks, s \in 1..MaxPlayerScore :
            LET dist   == getDealerOutcome(dealerOutcomeMap, U)
                payoff == getExpectedPayoff(dealerOutcomeMap, U, s)
            IN  /\ s > 21 => payoff = Neg(One)
                /\ s <= 21 =>
                      payoff = Sub(SumOver(dist, {c \in DOMAIN dist : c = 22 \/ s > c}),
                                   SumOver(dist, {c \in DOMAIN dist : c # 22 /\ c > s}))
                /\ Leq(Neg(One), payoff)
                /\ Leq(payoff, One)

\* The dealer is constructed; against the column's up-card a player's 20 has a
\* payoff strictly between 0 and 1, with a tie possible, and a bust -1.
C4_Witness ==
    /\ pc = "Build"
    /\ task = 1
    /\ 20 \in DOMAIN getDealerOutcome(dealerOutcomeMap, upCardOrder[col])
    /\ Less(Zero, getExpectedPayoff(dealerOutcomeMap, upCardOrder[col], 20))
    /\ Less(getExpectedPayoff(dealerOutcomeMap, upCardOrder[col], 20), One)
    /\ getExpectedPayoff(dealerOutcomeMap, upCardOrder[col], 22) = Neg(One)

\* C5: every getExpectedValue call of the build with a score of 21 or less
\* reads an entry this build has stored before for the same up-card; none
\* raises KeyError, and every score asked for is in 1..21 or over 21.
C5_LookupsHit ==
    /\ pc # "KeyError"
    /\ stale = {}
    /\ \A l \in lookups : l[1] > 21 \/ l[1] \in Scores
    /\ pc = "Build" => \A l \in TaskLookups(ColumnPlan[task], upCardOrder[col]) :
                          ~Misses(Tables, l)

\* A step of the build looked up an entry, stored once before, and a bust.
C5_Witness ==
    /\ pc \in {"Build", "Print"}
    /\ \E l \in lookups : l[1] <= 21 /\ writes[l] = 1
    /\ \E l \in lookups : l[1] > 21

\* The hand of score S after the card c: an Ace adds 11 to a hard hand, a soft
\* total above 21 is re-scored hard by subtracting 10.
AfterCard(S, soft, c) ==
    LET total == S + (IF c = 1 /\ ~soft THEN 11 ELSE cardValue(c))
    IN  IF total > 21 /\ (soft \/ c = 1)
        THEN [score |-> total - 10, soft |-> FALSE]
        ELSE [score |-> total, soft |-> soft \/ c = 1]

\* The value of the best play on the hand n against U by the tables T: -1 for
\* a bust, else the larger of HIT and STAND, of DOUBLE too if withDouble.
BestOf(T, n, U, withDouble) ==
    IF n.score > 21 THEN Neg(One)
    ELSE IF withDouble
         THEN Max3(T.hit[n.score][softString(n.soft)][U],
                   T.stand[n.score][softString(n.soft)][U],
                   T.double[n.score][softString(n.soft)][U])
         ELSE Max2(T.hit[n.score][softString(n.soft)][U],
                   T.stand[n.score][softString(n.soft)][U])

\* The average over the 13 ranks of the best value of the hand after the card.
AverageBest(T, S, soft, U, withDouble) ==
    Div(SumOver([c \in Ranks |-> BestOf(T, AfterCard(S, soft, c), U, withDouble)], Ranks),
        Cardinality(Ranks))

\* C6: after the construction, under every setting of the rule flags, for
\* every pair rank r and up-card U in 1..10 the stored expectedValueForPair[r][U]
\* is exactly twice the HIT value of evaluatePlayerHand(r, r == 1, U,
\* firstCard = True), which is twice the average over the 13 ranks of the best
\* value of the two-card hand, DOUBLE among the plays exactly when
\* allow_double_after_split is set, a lone Ace taken as soft 11.
C6_SplitValue ==
    pc = "Done" =>
        \A r \in 1..10, U \in UpCards :
            /\ expectedValueForPair[r][U] =
                   Twice(evaluatePlayerHand(Tables, r, r = 1, U, dealerOutcomeMap, TRUE).HIT)
            /\ expectedValueForPair[r][U] =
                   Twice(AverageBest(Tables, IF r = 1 THEN 11 ELSE r, r = 1, U,
                                     allow_double_after_split))

\* The construction is done with doubling after a split allowed, and for some
\* pair the value differs from what it is without DOUBLE among the plays.
C6_Witness ==
    /\ pc = "Done"
    /\ allow_double_after_split
    /\ \E r \in 2..10 :
          expectedValueForPair[r][6] # Twice(AverageBest(Tables, r, FALSE, 6, FALSE))

\* What the three score tables of T hold under the key k: nothing, or the
\* HIT, STAND and DOUBLE values.
EntriesAt(T, k) ==
    <<IF HasEntry(T.hit, k[1], k[2], k[3])
      THEN <<T.hit[k[1]][softString(k[2])][k[3]]>> ELSE <<>>,
      IF HasEntry(T.stand, k[1], k[2], k[3])
      THEN <<T.stand[k[1]][softString(k[2])][k[3]]>> ELSE <<>>,
      IF HasEntry(T.double, k[1], k[2], k[3])
      THEN <<T.double[k[1]][softString(k[2])][k[3]]>> ELSE <<>> >>

\* What the split table of T holds under the key k.
PairEntryAt(T, k) ==
    IF k[1] \in DOMAIN T.pair /\ k[2] \in DOMAIN T.pair[k[1]]
    THEN <<T.pair[k[1]][k[2]]>> ELSE <<>>

\* Every entry of the four tables is there and has been written once.
AllWrittenOnce ==
    /\ \A k \in TableKeys : writes[k] = 1 /\ Len(EntriesAt(Tables, k)[1]) = 1
                              /\ Len(EntriesAt(Tables, k)[2]) = 1
                              /\ Len(EntriesAt(Tables, k)[3]) = 1
    /\ \A k \in PairKeys : pairWrites[k] = 1 /\ Len(PairEntryAt(Tables, k)) = 1

\* The first printStrategy call is about to read the tables, or has.
Presented == pc \in {"Print", "Done"}

\* A step changes an entry only by a write that is counted, and none once the
\* tables are presented.
WritesCounted ==
    /\ \A k \in TableKeys :
          EntriesAt(Tables', k) # EntriesAt(Tables, k) => writes'[k] = writes[k] + 1
    /\ \A k \in PairKeys :
          PairEntryAt(Tables', k) # PairEntryAt(Tables, k) => pairWrites'[k] = pairWrites[k] + 1
    /\ Presented => UNCHANGED <<tableVars, writes, pairWrites>>

\* C7: in one run of the program no entry of the HIT, STAND, DOUBLE and split
\* tables is written twice; when the first printStrategy call reads the tables
\* every entry (score 1..21, HARD/SOFT, up-card 1..10; pair rank 1..10, up-card
\* 1..10) has been written exactly once; and from then on no entry is written
\* or changed.
C7_WrittenOnce ==
    /\ [](/\ \A k \in TableKeys : writes[k] <= 1
          /\ \A k \in PairKeys : pairWrites[k] <= 1
          /\ Presented => AllWrittenOnce)
    /\ [][WritesCounted]_vars

\* All three presentations have read the tables, every entry written once.
C7_Witness == pc = "Done" /\ printed = 3 /\ AllWrittenOnce

\* C8: when Dealer and Player are constructed again under the same rule flags,
\* the second Player storing into the class-level dictionaries the first has
\* filled, every entry it stores is the entry of the first run, and at the end
\* the HIT, STAND, DOUBLE and split tables are, entry for entry, those of the
\* first run.
C8_RerunSameTables ==
    run > 1 =>
        /\ \A k \in TableKeys : EntriesAt(Tables, k) = EntriesAt(firstTables, k)
        /\ \A k \in PairKeys : PairEntryAt(Tables, k) \in {<<>>, PairEntryAt(firstTables, k)}
        /\ Presented => Tables = firstTables

\* The second construction is done: it has stored every entry once more, into
\* dictionaries that held the entries of the first.
C8_Witness ==
    /\ run = 2
    /\ pc = "Done"
    /\ AllWrittenOnce
    /\ firstTables # EmptyDict

\* The score table dict with every entry not keyed by the up-card U set to 0.
OtherColumnsZeroed(dict, U) ==
    [S \in DOMAIN dict |->
        [h \in DOMAIN dict[S] |->
            [V \in DOMAIN dict[S][h] |-> IF V = U THEN dict[S][h][V] ELSE Zero]]]

\* The tables T with every entry not keyed by the up-card U set to 0.
OtherEntriesZeroed(T, U) ==
    [hit    |-> OtherColumnsZeroed(T.hit, U),
     stand  |-> OtherColumnsZeroed(T.stand, U),
     double |-> OtherColumnsZeroed(T.double, U),
     pair   |-> [r \in DOMAIN T.pair |->
                    [V \in DOMAIN T.pair[r] |-> IF V = U THEN T.pair[r][V] ELSE Zero]]]

\* The dealer's map with a sure bust in place of every distribution but that
\* of the up-card U.
OtherDealersBust(map, U) ==
    [r \in DOMAIN map |-> IF r = cardValue(U) THEN map[r] ELSE 22 :> One]

\* A step of the build reads table entries of the column's up-card only,
\* stores what the entries and the dealer distribution of that up-card alone
\* determine, and leaves every entry of another up-card as it is.
ColumnStep ==
    (pc = "Build" /\ pc' # "KeyError") =>
        LET t == ColumnPlan[task]
            U == upCardOrder[col]
            T == OtherEntriesZeroed(Tables, U)
            d == OtherDealersBust(dealerOutcomeMap, U)
        IN  /\ \A l \in lookups' : l[3] = U
            /\ \A k \in TableKeys : k[3] # U => EntriesAt(Tables', k) = EntriesAt(Tables, k)
            /\ \A k \in PairKeys : k[2] # U => PairEntryAt(Tables', k) = PairEntryAt(Tables, k)
            /\ IF t.kind = "score"
               THEN LET choices == evaluatePlayerHand(T, t.n, t.soft, U, d, FALSE)
                    IN  EntriesAt(Tables', <<t.n, t.soft, U>>) =
                           << <<choices.HIT>>, <<choices.STAND>>, <<choices.DOUBLE>> >>
               ELSE PairEntryAt(Tables', <<t.n, U>>) =
                       <<expectedValueOfSplittingPair(T, t.n, U, d)>>

\* C9: building the column of an up-card U reads only the dealer distribution
\* of U and table entries keyed by U, and writes only entries keyed by U; and
\* with the ten up-cards taken in another order the final tables are those of
\* the order 1, 2, ..., 10.
C9_ColumnsIndependent ==
    /\ [][ColumnStep]_vars
    /\ []((run > 1 /\ Presented) => (upCardOrder # SourceOrder /\ Tables = firstTables))

\* The tables have been built with the up-cards in an order other than 1..10,
\* after they were built in that order.
C9_Witness ==
    /\ run = 2
    /\ pc = "Done"
    /\ upCardOrder[1] # 1
    /\ AllWrittenOnce
    /\ firstTables # EmptyDict

\* (2/13) times the sum over the 13 ranks of the payoff of standing on the
\* hand after the card.
DoubledAverage(S, soft, U) ==
    Div(Twice(SumOver([c \in Ranks |->
                          getExpectedPayoff(dealerOutcomeMap, U, AfterCard(S, soft, c).score)],
                      Ranks)),
        Cardinality(Ranks))

\* C10: after the construction, for every key (S, soft, U) with S in 1..21 the
\* STAND entry is getExpectedPayoff(U, S); the DOUBLE entry is (2/13) times the
\* sum over the 13 ranks of getExpectedPayoff(U, S'); the HIT entry is (1/13)
\* times the sum over the 13 ranks of v(S', soft'), with (S', soft') the hand
\* after the rank and v = -1 above 21, else the larger of the final HIT and
\* STAND entries of (S', soft', U), DOUBLE left out.
C10_TableValues ==
    pc = "Done" =>
        \A k \in TableKeys :
            EntriesAt(Tables, k) =
                << <<AverageBest(Tables, k[1], k[2], k[3], FALSE)>>,
                   <<getExpectedPayoff(dealerOutcomeMap, k[3], k[1])>>,
                   <<DoubledAverage(k[1], k[2], k[3])>> >>

\* The construction is done, and on a hard 11 against a 6 DOUBLE is worth more
\* than HIT and STAND, whose larger is all the HIT entry of a hard 9 takes.
C10_Witness ==
    /\ pc = "Done"
    /\ Less(Max2(expectedValueByScoreIfHit[11]["HARD"][6],
                 expectedValueByScoreIfStand[11]["HARD"][6]),
            expectedValueByScoreIfDouble[11]["HARD"][6])
    /\ EntriesAt(Tables, <<9, FALSE, 6>>)[1] = <<AverageBest(Tables, 9, FALSE, 6, FALSE)>>
    /\ EntriesAt(Tables, <<9, FALSE, 6>>)[1] # <<AverageBest(Tables, 9, FALSE, 6, TRUE)>>

\* The hand the task at hand has evaluatePlayerHand work on.
HandAtHand ==
    EnteredHand(ColumnPlan[task].n, ColumnPlan[task].soft, ColumnPlan[task].kind = "pair")

\* C11 as stated: for every hand (S, soft) evaluatePlayerHand works on in the
\* build and every next rank, the score of the hand after the card, which is
\* the score getExpectedValue is called with, is greater than S.
C11_HitReachesHigher ==
    [][pc = "Build" => \A l \in lookups' : l[1] > HandAtHand.score]_vars

\* C11 amended: the score after the card is greater than S, or the hand was
\* soft and the hand after the card is its total above 21 re-scored hard, with
\* a score from 12 to S.
C11_HitReachesHigherOrHard ==
    [][pc = "Build" =>
          \A l \in lookups' :
              \/ l[1] > HandAtHand.score
              \/ HandAtHand.soft /\ ~l[2] /\ l[1] \in 12..HandAtHand.score]_vars

\* A soft 21 has just been evaluated: among its lookups are the hard 12 and
\* the hard 21, and a score above 21 is none of them.
C11_Witness ==
    /\ pc = "Build"
    /\ task > 1
    /\ ColumnPlan[task - 1] = [kind |-> "score", n |-> 21, soft |-> TRUE]
    /\ <<12, FALSE, upCardOrder[col]>> \in lookups
    /\ <<21, FALSE, upCardOrder[col]>> \in lookups
    /\ \A l \in lookups : l[1] <= 21

\* C12: with the shipped rule flags, for every hard score S in 17..21 and
\* every up-card U in 1..10 the tables hold STAND[S][HARD][U] >= HIT[S][HARD][U],
\* from the moment the entries are stored.
C12_StandOnHardSeventeen ==
    ShippedFlags =>
        /\ \A S \in 17..21, U \in UpCards :
              HasEntry(expectedValueByScoreIfHit, S, FALSE, U) =>
                  Leq(expectedValueByScoreIfHit[S]["HARD"][U],
                      expectedValueByScoreIfStand[S]["HARD"][U])
        /\ pc = "Done" =>
              \A S \in 17..21, U \in UpCards : HasEntry(expectedValueByScoreIfHit, S, FALSE, U)

\* The tables are complete; against a 10 standing on a hard 17 loses on
\* average, and hitting it loses more.
C12_Witness ==
    /\ pc = "Done"
    /\ ShippedFlags
    /\ Less(expectedValueByScoreIfStand[17]["HARD"][10], Zero)
    /\ Less(expectedValueByScoreIfHit[17]["HARD"][10],
            expectedValueByScoreIfStand[17]["HARD"][10])
====
